---- MODULE Spec2Model ----
(***************************************************************************)
(* Grid pipeline runner of the BBC News pipeline comparison tutorial       *)
(* (bbc_pipeline_comparison.py): compare_pipelines loops over the          *)
(* extractor / reducer / classifier tables, train_pipeline runs one        *)
(* combination inside a try/except, generate_visualizations ranks the      *)
(* successful records.                                                     *)
(*                                                                         *)
(* Numbers that Python keeps as floats are kept as fractions <<num, den>>  *)
(* with den > 0.  Library calls (fit, transform, predict, the metric       *)
(* functions) either return or raise; which of the two is the library's    *)
(* choice.                                                                 *)
(***************************************************************************)
EXTENDS Integers, Sequences, FiniteSets, TLC

\* ------------------------------------------------------------------ bounds
\* largest number of rows of train.csv and of test.csv
MaxDocs == 1
\* largest number of combinations of the configured tables
MaxCombos == 4
\* largest number of records handed to generate_visualizations on its own
MaxRanked == 4
\* largest number of rows of test.csv when one combination runs on its own
MaxLabels == 3
\* largest number of combinations of a script that is executed twice
MaxRepeated == 2

\* ------------------------------------------------------- program constants
MaxFeatures == 5000
PcaComponents == 300
ChiK == 500
MsPerSecond == 1000
TopN == 3

\* "Models trained: 8 configurations" (bbc_bert_finetuning.py)
TrainedConfigurations == 8

\* the category labels of the corpus (two of the five BBC categories)
Categories == {"business", "sport"}

\* elapsed wall-clock seconds between two time.time() readings: one tick
\* per stage (no step below branches on a timing)
Elapsed == {1}

NoneObj == [kind |-> "None"]

\* the three configuration tables of compare_pipelines, in declaration order
ExtractorTable ==
    << [obj |-> [kind |-> "TfidfVectorizer", max_features |-> MaxFeatures, fitted |-> FALSE],
        name |-> "TF-IDF"],
       [obj |-> [kind |-> "CountVectorizer", max_features |-> MaxFeatures, fitted |-> FALSE],
        name |-> "BoW"] >>

ReducerTable ==
    << [obj |-> NoneObj, name |-> "None"],
       [obj |-> [kind |-> "PCA", n_components |-> PcaComponents, fitted |-> FALSE],
        name |-> "PCA"],
       [obj |-> [kind |-> "SelectKBest", k |-> ChiK, fitted |-> FALSE],
        name |-> "Chi2"] >>

ClassifierTable ==
    << [obj |-> [kind |-> "LogisticRegression", fitted |-> FALSE], name |-> "Logistic Regression"],
       [obj |-> [kind |-> "LinearSVC", fitted |-> FALSE], name |-> "SVM"],
       [obj |-> [kind |-> "MultinomialNB", fitted |-> FALSE], name |-> "Naive Bayes"],
       [obj |-> [kind |-> "RandomForestClassifier", fitted |-> FALSE], name |-> "Random Forest"] >>

\* ----------------------------------------------------------------- helpers
Range(s) == {s[n] : n \in DOMAIN s}

\* the non-empty tables made of consecutive rows of table, declaration
\* order kept
SubTables(table) ==
    {SubSeq(table, m, n) : m \in 1..Len(table), n \in 1..Len(table)} \ {<< >>}

\* the data frames pd.read_csv can return: rows of (text, category)
DataFrames ==
    UNION {[1..n -> [text : {"test doc"}, category : Categories]] : n \in 0..MaxDocs}

\* train.csv: no step below looks at more of the train split than whether it
\* is empty, so it has no row or one row
TrainFrames == {<< >>, << [text |-> "train doc", category |-> "business"] >>}

\* test.csv: the categories are interchangeable, so the first row carries
\* the first of them
TestFrames == {df \in DataFrames : df # << >> => df[1].category = "business"}

\* column of a data frame: train_df['text'].values
Column(df, col) == [n \in 1..Len(df) |-> df[n][col]]

VARIABLES
    pc,            \* position in compare_pipelines / train_pipeline
    train_df, test_df,                   \* the two CSV files as read
    X_train, y_train, X_test, y_test,    \* the corpus columns
    extractors, reducers, classifiers,   \* the configuration tables
    ei, ri, ci,    \* positions of the three nested for loops
    ext, red, clf, \* the clones handed to train_pipeline
    frame,         \* local variables of train_pipeline
    results,       \* the record train_pipeline builds
    all_results,   \* every record, in execution order
    successful,    \* what compare_pipelines returns
    viz,           \* what generate_visualizations computes
    wallclock,     \* the differences two time.time() readings can show
    lib,           \* how the stage objects behave: freely, or as a function
    first_run,     \* the records of an earlier execution of the same script
    bert_pc,       \* position in main of bbc_bert_finetuning.py
    model_key, pooling_key,              \* its two nested for loops
    bert_results   \* its results list

vars == << pc, train_df, test_df, X_train, y_train, X_test, y_test,
           extractors, reducers, classifiers, ei, ri, ci, ext, red, clf,
           frame, results, all_results, successful, viz,
           wallclock, lib, first_run,
           bert_pc, model_key, pooling_key, bert_results >>

corpusVars == << train_df, test_df, X_train, y_train, X_test, y_test >>
tableVars == << extractors, reducers, classifiers >>
loopVars == << ei, ri, ci >>
cloneVars == << ext, red, clf >>
envVars == << wallclock, lib >>
bertVars == << bert_pc, model_key, pooling_key, bert_results >>
\* what compare_pipelines, train_pipeline and generate_visualizations leave
\* alone
outsideVars == << envVars, first_run, bertVars >>

NoFrame == [stage |-> "none"]
NoResult == [status |-> "none"]
Unset == << >>
NoViz == [stage |-> "none"]

\* the script has not been executed before
NoRun == [status |-> "none"]

\* stage objects whose calls return or raise as they please; sklearn's
\* clone returns for each estimator of the configured tables
AnyBehaviour == [mode |-> "any", clone |-> "returns"]

\* stage objects that clone may refuse as well: clone raises TypeError for
\* an object without get_params and RuntimeError for an estimator whose
\* constructor alters its parameters
CloneMayFail == [mode |-> "any", clone |-> "returns or raises"]

\* bbc_bert_finetuning.py is not running
BertIdle ==
    /\ bert_pc = "idle"
    /\ model_key = 1 /\ pooling_key = 1
    /\ bert_results = << >>

Init ==
    /\ pc = "load"
    /\ train_df \in TrainFrames
    /\ test_df \in TestFrames
    /\ X_train = Unset /\ y_train = Unset /\ X_test = Unset /\ y_test = Unset
    /\ extractors \in SubTables(ExtractorTable)
    /\ reducers \in SubTables(ReducerTable)
    /\ classifiers \in SubTables(ClassifierTable)
    /\ Len(extractors) * Len(reducers) * Len(classifiers) <= MaxCombos
    /\ ei = 1 /\ ri = 1 /\ ci = 1
    /\ ext = NoneObj /\ red = NoneObj /\ clf = NoneObj
    /\ frame = NoFrame
    /\ results = NoResult
    /\ all_results = << >>
    /\ successful = << >>
    /\ viz = NoViz
    /\ wallclock = Elapsed
    /\ lib = AnyBehaviour
    /\ first_run = NoRun
    /\ BertIdle

\* compare_pipelines, lines 175-211: read the corpus columns
LoadData ==
    /\ pc = "load"
    /\ X_train' = Column(train_df, "text")
    /\ y_train' = Column(train_df, "category")
    /\ X_test' = Column(test_df, "text")
    /\ y_test' = Column(test_df, "category")
    /\ pc' = "loop"
    /\ UNCHANGED outsideVars
    /\ UNCHANGED << train_df, test_df, tableVars, loopVars, cloneVars,
                    frame, results, all_results, successful, viz >>

\* ------------------------------------------------- fractions (Python floats)
Frac(n, d) == << n, d >>
FracLess(a, b) == a[1] * b[2] < b[1] * a[2]
FracLeq(a, b) == a[1] * b[2] <= b[1] * a[2]
FracEq(a, b) == a[1] * b[2] = b[1] * a[2]
FracNeg(a) == << 0 - a[1], a[2] >>
FracAdd(a, b) == << a[1] * b[2] + b[1] * a[2], a[2] * b[2] >>
FracMul(a, b) == << a[1] * b[1], a[2] * b[2] >>

\* ------------------------------------------------------------ library calls
\* sklearn.base.clone: an unfitted estimator with the same parameters
clone(estimator) == [estimator EXCEPT !.fitted = FALSE]

\* columns of the matrix a fitted vectorizer returns: the vocabulary, cut at
\* max_features
FeatureCount(extractor) == extractor.max_features

\* the document-term matrix a vectorizer returns: sparse, counts or weights
DocTermMatrix(docs, cols) ==
    [of |-> docs, rows |-> Len(docs), cols |-> cols, sparse |-> TRUE, nonneg |-> TRUE]

\* X.toarray()
toarray(X) == [X EXCEPT !.sparse = FALSE]
\* np.abs(X)
abs(X) == [X EXCEPT !.nonneg = TRUE]
\* hasattr(X, 'toarray'): scipy sparse matrices have it, ndarrays do not
hasattr_toarray(X) == X.sparse

\* number of columns a fitted reducer keeps
ReducedCols(reducer, X) ==
    IF reducer.kind = "PCA" THEN reducer.n_components
    ELSE IF reducer.k <= X.cols THEN reducer.k ELSE X.cols

\* reducer.fit_transform / reducer.transform: a dense matrix; a projection
\* (PCA) may hold negative entries, a column selection keeps the signs
ReducerOutput(reducer, X) ==
    [of |-> X.of, rows |-> X.rows, cols |-> ReducedCols(reducer, X), sparse |-> FALSE,
     nonneg |-> IF reducer.kind = "PCA" THEN FALSE ELSE X.nonneg]

\* the label vectors classifier.predict can return for X
Predictions(X) == [1..X.rows -> Categories]

\* an accuracy reported in percent
accuracy_score_Percent(y_true, y_pred) ==
    Frac(100 * Cardinality({n \in 1..Len(y_true) : y_true[n] = y_pred[n]}), Len(y_true))

\* sklearn.metrics.accuracy_score
accuracy_score(y_true, y_pred) ==
    Frac(Cardinality({n \in 1..Len(y_true) : y_true[n] = y_pred[n]}), Len(y_true))

CountLabel(y, c) == Cardinality({n \in 1..Len(y) : y[n] = c})
TruePositives(y_true, y_pred, c) ==
    Cardinality({n \in 1..Len(y_true) : y_true[n] = c /\ y_pred[n] = c})

\* per-label precision, recall and F1, 0 where the denominator is 0
LabelPrecision(y_true, y_pred, c) ==
    IF CountLabel(y_pred, c) = 0 THEN Frac(0, 1)
    ELSE Frac(TruePositives(y_true, y_pred, c), CountLabel(y_pred, c))
LabelRecall(y_true, y_pred, c) ==
    IF CountLabel(y_true, c) = 0 THEN Frac(0, 1)
    ELSE Frac(TruePositives(y_true, y_pred, c), CountLabel(y_true, c))
LabelF1(y_true, y_pred, c) ==
    IF CountLabel(y_pred, c) + CountLabel(y_true, c) = 0 THEN Frac(0, 1)
    ELSE Frac(2 * TruePositives(y_true, y_pred, c),
              CountLabel(y_pred, c) + CountLabel(y_true, c))

RECURSIVE WeightedSum(_, _, _, _)
\* sum over the labels cs of support(c) * perLabel[c]
WeightedSum(perLabel, y_true, cs, acc) ==
    IF cs = {} THEN acc
    ELSE LET c == CHOOSE x \in cs : TRUE
         IN WeightedSum(perLabel, y_true, cs \ {c},
                FracAdd(acc, FracMul(Frac(CountLabel(y_true, c), 1), perLabel[c])))

\* average='weighted': the per-label values weighted by support / len(y_true)
WeightedAverage(perLabel, y_true) ==
    FracMul(WeightedSum(perLabel, y_true, Categories, Frac(0, 1)), Frac(1, Len(y_true)))

\* sklearn.metrics.precision_recall_fscore_support(average='weighted')
precision_recall_fscore_support(y_true, y_pred) ==
    [precision |-> WeightedAverage([c \in Categories |-> LabelPrecision(y_true, y_pred, c)], y_true),
     recall |-> WeightedAverage([c \in Categories |-> LabelRecall(y_true, y_pred, c)], y_true),
     f1 |-> WeightedAverage([c \in Categories |-> LabelF1(y_true, y_pred, c)], y_true)]

\* sklearn.metrics.confusion_matrix: counts per (true, predicted) label pair
confusion_matrix(y_true, y_pred) ==
    [p \in Categories \X Categories |->
        Cardinality({n \in 1..Len(y_true) : y_true[n] = p[1] /\ y_pred[n] = p[2]})]

\* ---------------------------------------------------------- train_pipeline
\* str(e) of an exception raised inside a library call
LibraryError == "estimator error"

\* an except clause that lets the error escape from compare_pipelines
Except_Propagates(e) ==
    /\ results' = results @@ [status |-> "failed", error |-> e]
    /\ pc' = "aborted"

\* an except clause that leaves the error text out of the record
Except_DropsErrorText(e) ==
    /\ results' = results @@ [status |-> "failed"]
    /\ pc' = "return"

\* the except clause, lines 156-159, followed by the return of line 161
Except(e) ==
    /\ results' = results @@ [status |-> "failed", error |-> e]
    /\ pc' = "return"

\* a stage object is a function of its configuration and its input: with
\* lib fixed, the clone of one combination raises in one stage or in none,
\* and predicts one label vector
MayRaise(stage) ==
    IF lib.mode = "any" THEN TRUE ELSE lib.raises[results.pipeline] = stage
MayReturn(stage) ==
    IF lib.mode = "any" THEN TRUE ELSE lib.raises[results.pipeline] # stage
PredictionsOf(X) ==
    IF lib.mode = "any" THEN Predictions(X) ELSE {lib.y_pred[results.pipeline]}

\* no y argument
NoLabels == << >>
\* a y argument
Labels(y) == << y >>
\* the texts handed to a vectorizer
Texts(docs) == [of |-> docs]

\* one call of a stage object's method, with its X and y arguments
Call(object, method, X, y) == [object |-> object, method |-> method, X |-> X, y |-> y]

\* a vocabulary fitted on the texts of both files
ExtractorFitTexts_WholeCorpus == X_train \o X_test

\* extractor.fit_transform(X_train), line 93
ExtractorFitTexts == X_train

\* a test that takes no reducer for the Chi2 selector
IsChiSquare_Never(reducer_name) == FALSE

\* reducer_name == 'Chi2', line 102
IsChiSquare(reducer_name) == reducer_name = "Chi2"

\* a test that takes no classifier for Naive Bayes
IsNaiveBayes_Never(classifier_name) == FALSE

\* classifier_name == 'Naive Bayes', line 121
IsNaiveBayes(classifier_name) == classifier_name = "Naive Bayes"

\* a train_pipeline that predicts before it fits
StageAfter_PredictBeforeFit(stage) ==
    CASE stage = "extract" -> "reduce"
      [] stage = "reduce" -> "predict"
      [] stage = "predict" -> "fit"
      [] stage = "fit" -> "metrics"
      [] stage = "metrics" -> "return"

\* the statements of the try block, lines 91-152, in the order Python runs
\* them: Step 1, Step 2, Step 3, Prediction, Metrics, then the return
StageAfter(stage) ==
    CASE stage = "extract" -> "reduce"
      [] stage = "reduce" -> "fit"
      [] stage = "fit" -> "predict"
      [] stage = "predict" -> "metrics"
      [] stage = "metrics" -> "return"

\* a reduction stage timed around the whole if statement
NoReduceTime_Measured == Frac(1, 1)

\* reduce_time = 0, line 113
NoReduceTime == Frac(0, 1)

\* a record that reports the fit time alone
TotalTrainTime_FitOnly(f) == f.train_time

\* extract_time + reduce_time + train_time, line 146
TotalTrainTime(f) == FracAdd(FracAdd(f.extract_time, f.reduce_time), f.train_time)

\* one of the clone calls of lines 218-220 raises; they stand outside the
\* try block of train_pipeline and compare_pipelines has no try of its own
CloneRaises == lib.clone = "returns or raises"

\* a stage that empties the test texts it was handed
ArgumentsKept_TestTextsConsumed ==
    /\ X_test' = << >>
    /\ UNCHANGED << train_df, test_df, X_train, y_train, y_test >>

\* train_pipeline reads X_train, X_test, y_train and y_test and assigns none
\* of them; fit_transform, transform, fit and predict, toarray and np.abs
\* return new arrays; compare_pipelines hands the same four arrays to every
\* combination and keeps the two data frames
ArgumentsKept == UNCHANGED corpusVars

\* len(extractors) * len(reducers) * len(classifiers), line 208
Total == Len(extractors) * Len(reducers) * Len(classifiers)

\* compare_pipelines, lines 213-224, and train_pipeline, lines 80-88: the
\* loop header, the three clones and the identity fields of the record
\* the table's own objects handed to train_pipeline: the object of a row
\* used by the combination before is still in the state that one left
FreshCopies_SharedObjects ==
    /\ ext' = IF ext.kind = extractors[ei].obj.kind THEN ext ELSE extractors[ei].obj
    /\ red' = IF red.kind = reducers[ri].obj.kind THEN red ELSE reducers[ri].obj
    /\ clf' = IF clf.kind = classifiers[ci].obj.kind THEN clf ELSE classifiers[ci].obj

\* lines 217-220: each combination gets clones of the objects of its rows,
\* and None where the row has no reducer
FreshCopies ==
    /\ ext' = clone(extractors[ei].obj)
    /\ red' = IF reducers[ri].obj # NoneObj THEN clone(reducers[ri].obj) ELSE NoneObj
    /\ clf' = clone(classifiers[ci].obj)

BeginCombination ==
    /\ pc = "loop"
    /\ ei <= Len(extractors)
    /\ \/ /\ FreshCopies
          /\ results' = [pipeline |-> << extractors[ei].name, reducers[ri].name,
                                         classifiers[ci].name >>,
                         extractor |-> extractors[ei].name,
                         reducer |-> reducers[ri].name,
                         classifier |-> classifiers[ci].name]
          /\ frame' = [stage |-> "extract", calls |-> << >>]
          /\ pc' = "extract"
       \/ /\ CloneRaises
          /\ pc' = "aborted"
          /\ UNCHANGED << cloneVars, results, frame >>
    /\ UNCHANGED outsideVars
    /\ UNCHANGED << corpusVars, tableVars, loopVars, all_results, successful, viz >>

\* train_pipeline, lines 91-97: feature extraction
Extract ==
    /\ pc = "extract"
    /\ \/ /\ Len(X_train) = 0
          /\ Except("empty vocabulary")
          /\ UNCHANGED << ext, frame >>
       \/ /\ Len(X_train) > 0
          /\ MayRaise("extract")
          /\ Except(LibraryError)
          /\ UNCHANGED << ext, frame >>
       \/ /\ Len(X_train) > 0
          /\ MayReturn("extract")
          /\ \E d \in wallclock :
                frame' = [stage |-> StageAfter("extract"),
                          X_train_vec |-> DocTermMatrix(X_train, FeatureCount(ext)),
                          X_test_vec |-> DocTermMatrix(X_test, FeatureCount(ext)),
                          extract_time |-> Frac(d, 1),
                          features_before |-> FeatureCount(ext),
                          calls |-> frame.calls \o
                              << Call("extractor", "fit_transform", Texts(ExtractorFitTexts), NoLabels),
                                 Call("extractor", "transform", Texts(X_test), NoLabels) >>]
          /\ ext' = [ext EXCEPT !.fitted = TRUE]
          /\ pc' = StageAfter("extract")
          /\ UNCHANGED results
    /\ UNCHANGED outsideVars
    /\ UNCHANGED << tableVars, loopVars, red, clf, all_results, successful, viz >>
    /\ ArgumentsKept

\* train_pipeline, lines 99-115: dimensionality reduction; "Chi2" is the
\* display name of the SelectKBest(chi2) row
Reduce ==
    /\ pc = "reduce"
    /\ \/ /\ red = NoneObj
          /\ frame' = [stage |-> StageAfter("reduce"), reduce_time |-> NoReduceTime,
                       features_after |-> frame.X_train_vec.cols] @@ frame
          /\ pc' = StageAfter("reduce")
          /\ UNCHANGED << red, results >>
       \/ /\ red # NoneObj
          /\ LET dense == IsChiSquare(results.reducer)
                 Xtr == IF dense THEN abs(toarray(frame.X_train_vec)) ELSE frame.X_train_vec
                 Xte == IF dense THEN abs(toarray(frame.X_test_vec)) ELSE frame.X_test_vec
             IN \/ /\ MayRaise("reduce")
                   /\ Except(LibraryError)
                   /\ UNCHANGED << red, frame >>
                \/ /\ MayReturn("reduce")
                   /\ \E d \in wallclock :
                         frame' = [stage |-> StageAfter("reduce"),
                                   X_train_vec |-> ReducerOutput(red, Xtr),
                                   X_test_vec |-> ReducerOutput(red, Xte),
                                   reduce_time |-> Frac(d, 1),
                                   features_after |-> ReducedCols(red, Xtr),
                                   calls |-> frame.calls \o
                                       << Call("reducer", "fit_transform", Xtr,
                                               IF dense THEN Labels(y_train) ELSE NoLabels),
                                          Call("reducer", "transform", Xte, NoLabels) >>] @@ frame
                   /\ red' = [red EXCEPT !.fitted = TRUE]
                   /\ pc' = StageAfter("reduce")
                   /\ UNCHANGED results
    /\ UNCHANGED outsideVars
    /\ UNCHANGED << tableVars, loopVars, ext, clf, all_results, successful, viz >>
    /\ ArgumentsKept

\* train_pipeline, lines 117-129: classifier fit, with the dense
\* non-negative conversion Naive Bayes needs
Fit ==
    /\ pc = "fit"
    /\ LET nb == IsNaiveBayes(results.classifier)
           sp == hasattr_toarray(frame.X_train_vec)
           Xtr == IF nb THEN abs(IF sp THEN toarray(frame.X_train_vec) ELSE frame.X_train_vec)
                  ELSE frame.X_train_vec
           Xte == IF nb THEN abs(IF sp THEN toarray(frame.X_test_vec) ELSE frame.X_test_vec)
                  ELSE frame.X_test_vec
       IN \/ /\ MayRaise("fit")
             /\ Except(LibraryError)
             /\ frame' = [X_train_vec |-> Xtr, X_test_vec |-> Xte] @@ frame
             /\ UNCHANGED clf
          \/ /\ MayReturn("fit")
             /\ \E d \in wallclock :
                   frame' = [stage |-> StageAfter("fit"), X_train_vec |-> Xtr, X_test_vec |-> Xte,
                             train_time |-> Frac(d, 1),
                             calls |-> Append(frame.calls,
                                 Call("classifier", "fit", Xtr, Labels(y_train)))] @@ frame
             /\ clf' = [clf EXCEPT !.fitted = TRUE]
             /\ pc' = StageAfter("fit")
             /\ UNCHANGED results
    /\ UNCHANGED outsideVars
    /\ UNCHANGED << tableVars, loopVars, ext, red, all_results, successful, viz >>
    /\ ArgumentsKept

\* a division guarded against an empty test split
DivisionByZero_Guarded(len) == FALSE

\* (time.time() - start) / len(y_test) raises ZeroDivisionError
DivisionByZero(len) == len = 0

\* train_pipeline, lines 131-134: prediction and the per-sample latency
Predict ==
    /\ pc = "predict"
    /\ \/ /\ MayRaise("predict")
          /\ Except(LibraryError)
          /\ UNCHANGED frame
       \/ /\ MayReturn("predict")
          /\ DivisionByZero(Len(y_test))
          /\ Except("division by zero")
          /\ \E p \in PredictionsOf(frame.X_test_vec) :
                frame' = [y_pred |-> p,
                          calls |-> Append(frame.calls,
                              Call("classifier", "predict", frame.X_test_vec, NoLabels))] @@ frame
       \/ /\ MayReturn("predict")
          /\ ~DivisionByZero(Len(y_test))
          /\ \E p \in PredictionsOf(frame.X_test_vec), d \in wallclock :
                frame' = [stage |-> StageAfter("predict"), y_pred |-> p,
                          infer_time |-> Frac(d * MsPerSecond, Len(y_test)),
                          calls |-> Append(frame.calls,
                              Call("classifier", "predict", frame.X_test_vec, NoLabels))] @@ frame
          /\ pc' = StageAfter("predict")
          /\ UNCHANGED results
    /\ UNCHANGED outsideVars
    /\ UNCHANGED << tableVars, loopVars, cloneVars, all_results, successful, viz >>
    /\ ArgumentsKept

\* train_pipeline, lines 136-154: the metrics and results.update
Metrics ==
    /\ pc = "metrics"
    /\ \/ /\ MayRaise("metrics")
          /\ Except(LibraryError)
          /\ UNCHANGED frame
       \/ /\ MayReturn("metrics")
          /\ LET accuracy == accuracy_score(y_test, frame.y_pred)
                 prf == precision_recall_fscore_support(y_test, frame.y_pred)
                 cm == confusion_matrix(y_test, frame.y_pred)
             IN /\ frame' = [stage |-> StageAfter("metrics"), accuracy |-> accuracy,
                             precision |-> prf.precision, recall |-> prf.recall,
                             f1 |-> prf.f1, cm |-> cm] @@ frame
                /\ results' = [accuracy |-> accuracy,
                               precision |-> prf.precision,
                               recall |-> prf.recall,
                               f1_score |-> prf.f1,
                               train_time |-> TotalTrainTime(frame),
                               inference_ms |-> frame.infer_time,
                               features_before |-> frame.features_before,
                               features_after |-> frame.features_after,
                               confusion_matrix |-> cm,
                               status |-> "success"] @@ results
          /\ pc' = StageAfter("metrics")
    /\ UNCHANGED outsideVars
    /\ UNCHANGED << tableVars, loopVars, cloneVars, all_results, successful, viz >>
    /\ ArgumentsKept

\* a loop nest with the reducer loop innermost
NextPosition_ReducerInnermost ==
    IF ri < Len(reducers) THEN << ei, ri + 1, ci >>
    ELSE IF ci < Len(classifiers) THEN << ei, 1, ci + 1 >>
    ELSE << ei + 1, 1, 1 >>

\* a loop nest that leaves the reducer loop after its first classifier pass
NextPosition_SkipsReducers ==
    IF ci < Len(classifiers) THEN << ei, ri, ci + 1 >>
    ELSE << ei + 1, 1, 1 >>

\* a loop that stops after the first combination
NextPosition_StopsAfterFirst == << Len(extractors) + 1, 1, 1 >>

\* a loop that runs a failed combination again, once
NextPosition_RetriesFailed ==
    IF results.status = "failed"
       /\ (all_results = << >> \/ all_results[Len(all_results)].pipeline # results.pipeline)
    THEN << ei, ri, ci >>
    ELSE IF ci < Len(classifiers) THEN << ei, ri, ci + 1 >>
    ELSE IF ri < Len(reducers) THEN << ei, ri + 1, 1 >>
    ELSE << ei + 1, 1, 1 >>

\* the loop positions after one more pass of the innermost loop
NextPosition ==
    IF ci < Len(classifiers) THEN << ei, ri, ci + 1 >>
    ELSE IF ri < Len(reducers) THEN << ei, ri + 1, 1 >>
    ELSE << ei + 1, 1, 1 >>

\* train_pipeline, line 161, and compare_pipelines, line 226: the record is
\* returned and appended, and the loops move on
AppendResult ==
    /\ pc = "return"
    /\ all_results' = Append(all_results, results)
    /\ ei' = NextPosition[1] /\ ri' = NextPosition[2] /\ ci' = NextPosition[3]
    /\ frame' = NoFrame
    /\ pc' = "loop"
    /\ UNCHANGED outsideVars
    /\ UNCHANGED << corpusVars, tableVars, cloneVars, results, successful, viz >>

\* a filter that also drops the records that took two seconds or more
IsSuccess_WithinBudget(r) == r.status = "success" /\ FracLess(r.train_time, Frac(2, 1))

\* a filter that keeps the failed records instead
IsSuccess_Inverted(r) == r.status = "failed"

\* a filter that keeps every record
IsSuccess_KeepsAll(r) == r.status # "none"

\* a filter that also wants a score above zero
IsSuccess_ScoredOnly(r) == r.status = "success" /\ r.accuracy # Frac(0, 1)

\* r.get('status') == 'success'
IsSuccess(r) == r.status = "success"

\* return successful, y_test (line 235)
ReturnValue == << successful, y_test >>

\* compare_pipelines, lines 228-235: the loops are over; filter and return
FilterSuccessful ==
    /\ pc = "loop"
    /\ ei > Len(extractors)
    /\ successful' = SelectSeq(all_results, IsSuccess)
    /\ pc' = "done"
    /\ UNCHANGED outsideVars
    /\ UNCHANGED << corpusVars, tableVars, loopVars, cloneVars, frame, results, all_results, viz >>

\* ------------------------------------------------- generate_visualizations
RECURSIVE InsertIndex(_, _, _, _)
\* list.sort keeps equal keys in their original order, also with reverse=True:
\* position n goes in front of the first position whose key it strictly
\* precedes
InsertIndex(perm, n, keys, reverse) ==
    IF perm = << >> THEN << n >>
    ELSE LET h == Head(perm)
             before == IF reverse THEN FracLess(keys[h], keys[n])
                       ELSE FracLess(keys[n], keys[h])
         IN IF before THEN << n >> \o perm
            ELSE << h >> \o InsertIndex(Tail(perm), n, keys, reverse)

RECURSIVE SortedIndices(_, _, _)
SortedIndices(keys, reverse, n) ==
    IF n = 0 THEN << >>
    ELSE InsertIndex(SortedIndices(keys, reverse, n - 1), n, keys, reverse)

\* Python's sorted(xs, key=..., reverse=...), keys[n] being key(xs[n])
sorted(xs, keys, reverse) ==
    LET perm == SortedIndices(keys, reverse, Len(xs))
    IN [m \in 1..Len(xs) |-> xs[perm[m]]]

\* a min that compares the wrong way round
min_LargestKey(xs, keys) ==
    xs[CHOOSE n \in 1..Len(xs) :
          /\ \A m \in 1..Len(xs) : FracLeq(keys[m], keys[n])
          /\ \A m \in 1..(n - 1) : FracLess(keys[m], keys[n])]

\* Python's max(xs, key=...) and min(xs, key=...): the first extreme element
\* the latest of the elements of greatest key
max_LastOfTies(xs, keys) ==
    xs[CHOOSE n \in 1..Len(xs) :
          /\ \A m \in 1..Len(xs) : FracLeq(keys[m], keys[n])
          /\ \A m \in (n + 1)..Len(xs) : FracLess(keys[m], keys[n])]

max(xs, keys) ==
    xs[CHOOSE n \in 1..Len(xs) :
          /\ \A m \in 1..Len(xs) : FracLeq(keys[m], keys[n])
          /\ \A m \in 1..(n - 1) : FracLess(keys[m], keys[n])]
min(xs, keys) ==
    xs[CHOOSE n \in 1..Len(xs) :
          /\ \A m \in 1..Len(xs) : FracLeq(keys[n], keys[m])
          /\ \A m \in 1..(n - 1) : FracLess(keys[n], keys[m])]

FirstN(xs, n) == SubSeq(xs, 1, IF Len(xs) < n THEN Len(xs) ELSE n)

\* the key functions of lines 244, 245 and 255
AccuracyKeys(rs) == [n \in 1..Len(rs) |-> rs[n].accuracy]
NegAccuracyKeys(rs) == [n \in 1..Len(rs) |-> FracNeg(rs[n].accuracy)]
TrainTimeKeys(rs) == [n \in 1..Len(rs) |-> rs[n].train_time]

Reverse(xs) == [n \in 1..Len(xs) |-> xs[Len(xs) + 1 - n]]

\* an ascending sort turned around: equal accuracies end up latest first
RankByAccuracy_SortThenReverse(rs) == Reverse(sorted(rs, AccuracyKeys(rs), FALSE))

\* a ranking that walks the records latest first
RankByAccuracy_LatestFirst(rs) == sorted(Reverse(rs), NegAccuracyKeys(Reverse(rs)), FALSE)

\* a ranking whose key lost its minus sign
RankByAccuracy_Ascending(rs) == sorted(rs, AccuracyKeys(rs), FALSE)

\* sorted(results, key=lambda x: -x['accuracy']), lines 255-258 and 334
RankByAccuracy(rs) == sorted(rs, NegAccuracyKeys(rs), FALSE)

\* bbc_bert_finetuning.py main, line 523:
\* sorted(results, key=lambda x: x['accuracy'], reverse=True)
SummaryOrder(rs) == sorted(rs, AccuracyKeys(rs), TRUE)

\* generate_visualizations, lines 243-258 and 334: best, fastest, the bar
\* chart ranking and the top 3; max() of an empty list raises ValueError,
\* which nothing catches
\* the names found under a key of the results, line 297-299 (the order
\* sorted gives the axes is the order of the drawing only)
NamesIn(rs, key) == {rs[n][key] : n \in 1..Len(rs)}

\* next(..., None) found nothing
NoMatch == [status |-> "none"]

\* a lookup that leaves the reducer out of the comparison
HeatmapMatch_IgnoresReducer(rs, e, r, c) ==
    LET hits == {n \in 1..Len(rs) : rs[n].extractor = e /\ rs[n].classifier = c}
    IN IF hits = {} THEN NoMatch
       ELSE rs[CHOOSE n \in hits : \A m \in hits : n <= m]

\* lines 309-310: the first result carrying the three names, or None
HeatmapMatch(rs, e, r, c) ==
    LET hits == {n \in 1..Len(rs) :
                    rs[n].extractor = e /\ rs[n].reducer = r /\ rs[n].classifier = c}
    IN IF hits = {} THEN NoMatch
       ELSE rs[CHOOSE n \in hits : \A m \in hits : n <= m]

\* z of a cell without a match
NoValue == << >>

\* the empty string
NoText == << >>

\* f"{val:.1f}%": the tenths of val, rounded, as the characters of the text
Tenths(val) == << (2 * 10 * val[1] + val[2]) \div (2 * val[2]), "%" >>

\* lines 301-312 and 319: one cell per classifier, extractor and reducer
\* named by some result; z is the accuracy in percent of the match or None,
\* and the text is empty when z is None or 0.0
Heatmap(rs) ==
    [cell \in NamesIn(rs, "extractor") \X NamesIn(rs, "reducer") \X NamesIn(rs, "classifier") |->
        LET match == HeatmapMatch(rs, cell[1], cell[2], cell[3])
            val == IF match # NoMatch THEN FracMul(match.accuracy, Frac(100, 1)) ELSE NoValue
        IN [z |-> val,
            text |-> IF val = NoValue \/ val[1] = 0 THEN NoText ELSE Tenths(val)]]

\* results.sort(key=...) in place of sorted(results, key=...)
ResultsKept_SortedInPlace ==
    /\ successful' = RankByAccuracy(successful)
    /\ UNCHANGED all_results

\* max, min and sorted read the list they are given: max and min return one
\* of its elements, sorted returns a new list, and the slice [:3] another;
\* generate_visualizations assigns no element and no field of a record
ResultsKept == UNCHANGED << all_results, successful >>

GenerateVisualizations ==
    /\ pc = "done"
    /\ \/ /\ successful = << >>
          /\ pc' = "crashed"
          /\ UNCHANGED viz
       \/ /\ successful # << >>
          /\ viz' = [stage |-> "shown",
                     best_acc |-> max(successful, AccuracyKeys(successful)),
                     fastest |-> min(successful, TrainTimeKeys(successful)),
                     ranked |-> RankByAccuracy(successful),
                     top3 |-> FirstN(RankByAccuracy(successful), TopN),
                     heatmap |-> Heatmap(successful)]
          /\ pc' = "finished"
    /\ UNCHANGED outsideVars
    /\ UNCHANGED << corpusVars, tableVars, loopVars, cloneVars, frame, results >>
    /\ ResultsKept

Next ==
    \/ LoadData
    \/ BeginCombination
    \/ Extract
    \/ Reduce
    \/ Fit
    \/ Predict
    \/ Metrics
    \/ AppendResult
    \/ FilterSuccessful
    \/ GenerateVisualizations

Spec == Init /\ [][Next]_vars

\* the script runs its statements one after the other until it ends
FairSpec == Spec /\ WF_vars(Next)

\* ------------------------------------------- one combination on its own
\* the script starts with the given corpora, any tables and the given clock
Start(trains, tests, clock) ==
    /\ pc = "load"
    /\ train_df \in trains
    /\ test_df \in tests
    /\ X_train = Unset /\ y_train = Unset /\ X_test = Unset /\ y_test = Unset
    /\ extractors \in SubTables(ExtractorTable)
    /\ reducers \in SubTables(ReducerTable)
    /\ classifiers \in SubTables(ClassifierTable)
    /\ ei = 1 /\ ri = 1 /\ ci = 1
    /\ ext = NoneObj /\ red = NoneObj /\ clf = NoneObj
    /\ frame = NoFrame
    /\ results = NoResult
    /\ all_results = << >>
    /\ successful = << >>
    /\ viz = NoViz
    /\ wallclock = clock
    /\ first_run = NoRun
    /\ BertIdle

\* test.csv with one to MaxLabels rows, the first of the first category
LabelFrames ==
    {df \in UNION {[1..n -> [text : {"test doc"}, category : Categories]] : n \in 1..MaxLabels} :
        df[1].category = "business"}

\* one combination of the tables, scored on up to MaxLabels test rows
MetricsInit ==
    /\ Start({<< [text |-> "train doc", category |-> "business"] >>}, LabelFrames, Elapsed)
    /\ Total = 1
    /\ lib = AnyBehaviour

MetricsSpec == MetricsInit /\ [][Next]_vars

\* time.time() is the system's wall clock: between two readings it may
\* stand still (coarse resolution) or have been set back (a clock
\* adjustment), so that a difference of two readings is of any sign
ClockSteps == {0 - 1, 0, 1}

\* one combination of the tables, timed by a wall clock that may be adjusted
TimingInit ==
    /\ Start({<< [text |-> "train doc", category |-> "business"] >>}, TestFrames, ClockSteps)
    /\ Total = 1
    /\ lib = AnyBehaviour

TimingSpec == TimingInit /\ [][Next]_vars

\* the tables hold stage objects that clone may refuse
PluggableInit ==
    /\ Start({<< [text |-> "train doc", category |-> "business"] >>},
             TestFrames \ {<< >>}, Elapsed)
    /\ Total <= MaxCombos
    /\ lib = CloneMayFail

PluggableSpec == PluggableInit /\ [][Next]_vars

\* ------------------------------------------------ the script, run twice
\* what two executions are compared on: identity, status and metric values,
\* or identity, status and error text
Outcome(r) ==
    IF r.status = "success"
    THEN [pipeline |-> r.pipeline, status |-> r.status, accuracy |-> r.accuracy,
          precision |-> r.precision, recall |-> r.recall, f1_score |-> r.f1_score,
          confusion_matrix |-> r.confusion_matrix]
    ELSE [pipeline |-> r.pipeline, status |-> r.status, error |-> r.error]
Outcomes(rs) == [n \in 1..Len(rs) |-> Outcome(rs[n])]

\* the stages a deterministic stage object can raise in, if in any
RaisesIn == {"never", "extract", "reduce", "fit", "predict", "metrics"}

\* deterministic stage objects: for each combination of the tables es, rs
\* and cs, the stage that raises and the labels predict returns for the
\* test split of n rows
FixedBehaviours(es, rs, cs, n) ==
    LET ids == {<< e.name, r.name, c.name >> : e \in Range(es), r \in Range(rs), c \in Range(cs)}
        first == [m \in 1..n |-> "business"]
    IN UNION {{[mode |-> "fixed", clone |-> "returns", raises |-> f, y_pred |-> p] :
                  p \in {q \in [ids -> [1..n -> Categories]] :
                            \A id \in ids : f[id] # "never" => q[id] = first}} :
              f \in [ids -> RaisesIn]}

\* the first rows of the tables, run by deterministic stage objects under a
\* clock that shows zero or one second per stage
RepeatInit ==
    /\ Start({<< [text |-> "train doc", category |-> "business"] >>},
             {<< [text |-> "test doc", category |-> "business"] >>}, {0, 1})
    /\ extractors[1] = ExtractorTable[1]
    /\ reducers[1] = ReducerTable[1]
    /\ classifiers[1] = ClassifierTable[1]
    /\ Total <= MaxRepeated
    /\ lib \in FixedBehaviours(extractors, reducers, classifiers, Len(test_df))

\* python bbc_pipeline_comparison.py, once more: compare_pipelines starts
\* over with the same files, tables and stage objects
RunAgain ==
    /\ pc = "done"
    /\ first_run = NoRun
    /\ first_run' = [status |-> "done", all_results |-> Outcomes(all_results),
                     successful |-> Outcomes(successful)]
    /\ pc' = "load"
    /\ X_train' = Unset /\ y_train' = Unset /\ X_test' = Unset /\ y_test' = Unset
    /\ ei' = 1 /\ ri' = 1 /\ ci' = 1
    /\ ext' = NoneObj /\ red' = NoneObj /\ clf' = NoneObj
    /\ frame' = NoFrame
    /\ results' = NoResult
    /\ all_results' = << >>
    /\ successful' = << >>
    /\ UNCHANGED << train_df, test_df, tableVars, viz, envVars, bertVars >>

RepeatNext ==
    \/ LoadData
    \/ BeginCombination
    \/ Extract
    \/ Reduce
    \/ Fit
    \/ Predict
    \/ Metrics
    \/ AppendResult
    \/ FilterSuccessful
    \/ RunAgain

RepeatSpec == RepeatInit /\ [][RepeatNext]_vars

\* ------------------------------------------------ bbc_bert_finetuning.py
\* BERT_MODELS and POOLING_STRATEGIES, in the order their keys are written
BERT_MODELS ==
    << [key |-> "bert_base", name |-> "BERT-base", has_pooler |-> TRUE],
       [key |-> "distilbert", name |-> "DistilBERT", has_pooler |-> FALSE],
       [key |-> "tinybert", name |-> "TinyBERT", has_pooler |-> TRUE] >>
POOLING_STRATEGIES == << "cls_token", "mean_pooling", "pooler_output" >>

\* the test labels the fine-tuned models are scored on
BertTestLabels == << "business", "sport" >>

\* a skip of every pooler_output pair, pooler or not
SkipsPair_EveryPooler(model_info, strategy) == strategy = "pooler_output"

\* pooling_key == 'pooler_output' and not model_info['has_pooler']
SkipsPair(model_info, strategy) ==
    strategy = "pooler_output" /\ ~model_info.has_pooler

\* the results dict of train_combination, with test_acc * 100
BertResult(model_info, strategy, y_pred) ==
    [model_base |-> model_info.key,
     pooling_strategy |-> strategy,
     display_name |-> << model_info.name, strategy >>,
     accuracy |-> FracMul(accuracy_score(BertTestLabels, y_pred), Frac(100, 1))]

\* if result: None is false, a non-empty dict is true
Truthy(result) == result # NoneObj

\* the two nested loops of main, one step on
NextPair ==
    IF pooling_key < Len(POOLING_STRATEGIES) THEN << model_key, pooling_key + 1 >>
    ELSE << model_key + 1, 1 >>

\* compare_pipelines is not running
GridIdle ==
    /\ pc = "idle"
    /\ train_df = << >> /\ test_df = << >>
    /\ X_train = Unset /\ y_train = Unset /\ X_test = Unset /\ y_test = Unset
    /\ extractors = ExtractorTable
    /\ reducers = ReducerTable
    /\ classifiers = ClassifierTable
    /\ ei = 1 /\ ri = 1 /\ ci = 1
    /\ ext = NoneObj /\ red = NoneObj /\ clf = NoneObj
    /\ frame = NoFrame
    /\ results = NoResult
    /\ all_results = << >>
    /\ successful = << >>
    /\ viz = NoViz
    /\ wallclock = Elapsed
    /\ lib = AnyBehaviour
    /\ first_run = NoRun

\* main, lines 501-506: the data is loaded and results is empty
BertInit ==
    /\ GridIdle
    /\ bert_pc = "loop"
    /\ model_key = 1 /\ pooling_key = 1
    /\ bert_results = << >>

\* main, lines 508-515, and train_combination: one pass of the inner loop.
\* A pair is skipped, or trained; training and evaluation run without a
\* try, so an error in them ends the script
TrainCombination ==
    /\ bert_pc = "loop"
    /\ model_key <= Len(BERT_MODELS)
    /\ LET model_info == BERT_MODELS[model_key]
           strategy == POOLING_STRATEGIES[pooling_key]
       IN \/ /\ SkipsPair(model_info, strategy)
             /\ bert_results' = IF Truthy(NoneObj) THEN Append(bert_results, NoneObj) ELSE bert_results
             /\ bert_pc' = "loop"
             /\ model_key' = NextPair[1] /\ pooling_key' = NextPair[2]
          \/ /\ ~SkipsPair(model_info, strategy)
             /\ bert_pc' = "crashed"
             /\ UNCHANGED << model_key, pooling_key, bert_results >>
          \/ /\ ~SkipsPair(model_info, strategy)
             /\ \E y_pred \in [1..Len(BertTestLabels) -> Categories] :
                   LET result == BertResult(model_info, strategy, y_pred)
                   IN bert_results' = IF Truthy(result) THEN Append(bert_results, result)
                                      ELSE bert_results
             /\ bert_pc' = "loop"
             /\ model_key' = NextPair[1] /\ pooling_key' = NextPair[2]
    /\ UNCHANGED << pc, corpusVars, tableVars, loopVars, cloneVars, frame, results,
                    all_results, successful, viz, envVars, first_run >>

\* main, lines 517-524: the loops are over, the summary is printed
BertSummary ==
    /\ bert_pc = "loop"
    /\ model_key > Len(BERT_MODELS)
    /\ bert_pc' = "summary"
    /\ UNCHANGED << model_key, pooling_key, bert_results >>
    /\ UNCHANGED << pc, corpusVars, tableVars, loopVars, cloneVars, frame, results,
                    all_results, successful, viz, envVars, first_run >>

BertNext ==
    \/ TrainCombination
    \/ BertSummary

BertSpec == BertInit /\ [][BertNext]_vars

\* ------------------------------------- generate_visualizations on its own
\* the test split the ranked records were scored on
RankedTestFrame ==
    << [text |-> "test doc", category |-> "business"],
       [text |-> "test doc", category |-> "sport"] >>

\* total training times of a record, in seconds
TrainTimes == {Frac(1, 2), Frac(1, 1), Frac(2, 1)}

\* the record of a combination that succeeded: lines 83-88 and 141-152
RunResult(e, r, c, y_true, y_pred, seconds) ==
    LET prf == precision_recall_fscore_support(y_true, y_pred)
    IN [pipeline |-> << e.name, r.name, c.name >>,
        extractor |-> e.name, reducer |-> r.name, classifier |-> c.name,
        accuracy |-> accuracy_score(y_true, y_pred),
        precision |-> prf.precision, recall |-> prf.recall, f1_score |-> prf.f1,
        train_time |-> seconds,
        inference_ms |-> Frac(MsPerSecond, Len(y_true)),
        features_before |-> FeatureCount(e.obj),
        features_after |-> FeatureCount(e.obj),
        confusion_matrix |-> confusion_matrix(y_true, y_pred),
        status |-> "success"]

\* the record of a combination that failed: lines 83-88 and 156-159
FailedResult(e, r, c) ==
    [pipeline |-> << e.name, r.name, c.name >>,
     extractor |-> e.name, reducer |-> r.name, classifier |-> c.name,
     status |-> "failed", error |-> LibraryError]

\* the records train_pipeline can return for classifier row c, with the
\* first extractor and no reducer
RecordsOf(c) ==
    {FailedResult(ExtractorTable[1], ReducerTable[1], c)}
    \cup {RunResult(ExtractorTable[1], ReducerTable[1], c,
                    Column(RankedTestFrame, "category"), p, t) :
            p \in [1..Len(RankedTestFrame) -> Categories], t \in TrainTimes}

RECURSIVE RecordLists(_)
\* the lists all_results can be for the classifier rows cs
RecordLists(cs) ==
    IF cs = << >> THEN {<< >>}
    ELSE {<< r >> \o rest : r \in RecordsOf(Head(cs)), rest \in RecordLists(Tail(cs))}

\* compare_pipelines has returned: any records, one per classifier row
RankInit ==
    /\ pc = "done"
    /\ train_df = << [text |-> "train doc", category |-> "business"] >>
    /\ test_df = RankedTestFrame
    /\ X_train = Column(train_df, "text") /\ y_train = Column(train_df, "category")
    /\ X_test = Column(test_df, "text") /\ y_test = Column(test_df, "category")
    /\ extractors = SubSeq(ExtractorTable, 1, 1)
    /\ reducers = SubSeq(ReducerTable, 1, 1)
    /\ classifiers \in SubTables(ClassifierTable)
    /\ Len(classifiers) <= MaxRanked
    /\ ei = Len(extractors) + 1 /\ ri = 1 /\ ci = 1
    /\ ext = clone(extractors[1].obj)
    /\ red = NoneObj
    /\ clf = clone(classifiers[Len(classifiers)].obj)
    /\ frame = NoFrame
    /\ all_results \in RecordLists(classifiers)
    /\ results = all_results[Len(all_results)]
    /\ successful = SelectSeq(all_results, IsSuccess)
    /\ viz = NoViz
    /\ wallclock = Elapsed
    /\ lib = AnyBehaviour
    /\ first_run = NoRun
    /\ BertIdle

RankNext == GenerateVisualizations

RankSpec == RankInit /\ [][RankNext]_vars

\* ================================================================= claims
StagePcs == {"extract", "reduce", "fit", "predict", "metrics", "return"}
\* compare_pipelines has returned
Completed == {"done", "finished", "crashed"}

Identity(r) == << r.extractor, r.reducer, r.classifier >>
IsFailed(r) == r.status = "failed"
failures == SelectSeq(all_results, IsFailed)

\* the n-th combination of the nested order: extractors outermost,
\* classifiers innermost
NthIdentity(n) ==
    LET R == Len(reducers)
        C == Len(classifiers)
    IN << extractors[((n - 1) \div (R * C)) + 1].name,
          reducers[(((n - 1) \div C) % R) + 1].name,
          classifiers[((n - 1) % C) + 1].name >>

\* the run limits of the claims: a non-negative integer or unbounded
Limits == {[bounded |-> TRUE, n |-> k] : k \in 0..MaxCombos} \cup {[bounded |-> FALSE]}
MinLimit(total, l) == IF l.bounded /\ l.n < total THEN l.n ELSE total

\* combinations started so far
Started == Len(all_results) + (IF pc \in StagePcs THEN 1 ELSE 0)

\* C1 as stated: after the run, for every run limit, successes plus
\* failures equal min(total_combinations, limit)
C1_Original ==
    \A l \in Limits :
        pc \in Completed => Len(successful) + Len(failures) = MinLimit(Total, l)

\* C1, amended: compare_pipelines takes no run limit; after it returns, the
\* successful records plus the failed records of all_results number exactly
\* the product of the three table sizes
C1_Amended ==
    pc \in Completed => Len(successful) + Len(failures) = Total

C1_Witness ==
    pc = "done" /\ Len(successful) >= 1 /\ Len(failures) >= 1 /\ Total >= 3

\* C2: a combination that raises is recorded as failed, is absent from the
\* successful results, and the combinations after it in enumeration order
\* are still executed
C2_FailureIsolated ==
    /\ \A n \in 1..Len(all_results) :
          IsFailed(all_results[n]) =>
              /\ "error" \in DOMAIN all_results[n]
              /\ \A m \in 1..Len(successful) :
                    Identity(successful[m]) # Identity(all_results[n])
    /\ (pc = "return" /\ IsFailed(results)) => "error" \in DOMAIN results
    /\ pc \in Completed =>
          /\ Len(all_results) = Total
          /\ \A n \in 1..Total : Identity(all_results[n]) = NthIdentity(n)
          /\ \A n \in 1..Total : all_results[n].status \in {"success", "failed"}

C2_Witness ==
    /\ pc = "done"
    /\ \E n \in 1..(Len(all_results) - 1) :
          /\ IsFailed(all_results[n])
          /\ all_results[n + 1].status = "success"
          /\ all_results[n + 1] \in Range(successful)

\* C3: for every table configuration and every pattern of failures the run
\* reaches its end with all combinations recorded
C3_Terminates ==
    <>(pc \in Completed /\ Len(all_results) = Total)

C3_Witness ==
    pc = "done" /\ Total >= 2 /\ Len(failures) = Total

\* C4: combinations run in the nested order (extractors outermost,
\* classifiers innermost) and the records are listed in that order
C4_ExecutionOrder ==
    /\ \A n \in 1..Len(all_results) : Identity(all_results[n]) = NthIdentity(n)
    /\ pc \in StagePcs => Identity(results) = NthIdentity(Len(all_results) + 1)
    /\ \A m1, m2 \in 1..Len(successful) :
          m1 < m2 =>
              \E n1, n2 \in 1..Len(all_results) :
                  /\ n1 < n2
                  /\ all_results[n1] = successful[m1]
                  /\ all_results[n2] = successful[m2]

C4_Witness ==
    /\ pc = "done"
    /\ Len(extractors) = 2 /\ Len(reducers) = 2
    /\ Len(successful) >= 2

\* C5 as stated: with limit=1 exactly one combination is started, the first
\* of the nested order, whatever the size of the tables
C5_Original ==
    \A l \in Limits :
        (l.bounded /\ l.n = 1) =>
            /\ Started <= 1
            /\ \A n \in 1..Len(all_results) : Identity(all_results[n]) = NthIdentity(1)

\* C5, amended: compare_pipelines takes no limit; the first combination it
\* starts is (first extractor, first reducer, first classifier) and it goes
\* on to run all the others, so exactly one combination runs only when the
\* tables hold a single combination
C5_Amended ==
    /\ Len(all_results) >= 1 =>
          Identity(all_results[1]) =
              << extractors[1].name, reducers[1].name, classifiers[1].name >>
    /\ (pc \in StagePcs /\ all_results = << >>) =>
          Identity(results) = << extractors[1].name, reducers[1].name, classifiers[1].name >>
    /\ pc \in Completed => Len(all_results) = Total

C5_Witness ==
    pc = "done" /\ Total = 4 /\ Len(all_results) = 4

\* C7: every triple of extractors x reducers x classifiers is executed
\* exactly once; none is skipped, run twice or retried after a failure
C7_ExactlyOnce ==
    \A e \in 1..Len(extractors), r \in 1..Len(reducers), c \in 1..Len(classifiers) :
        LET id == << extractors[e].name, reducers[r].name, classifiers[c].name >>
            runs == Cardinality({n \in 1..Len(all_results) : Identity(all_results[n]) = id})
                    + (IF pc \in StagePcs \ {"return"} /\ Identity(results) = id THEN 1 ELSE 0)
        IN /\ runs <= 1
           /\ pc \in Completed => runs = 1

C7_Witness ==
    pc = "done" /\ Total = 4 /\ Len(failures) >= 1 /\ Len(successful) >= 1

IdentityKeys == {"pipeline", "extractor", "reducer", "classifier"}
MetricKeys == {"accuracy", "precision", "recall", "f1_score", "train_time",
               "inference_ms", "features_before", "features_after", "confusion_matrix"}

\* C6 as stated: every combination that failed is present in what
\* compare_pipelines returns
C6_Original ==
    pc \in Completed =>
        \A n \in 1..Len(all_results) :
            IsFailed(all_results[n]) => all_results[n] \in Range(ReturnValue[1])

\* C6, amended: compare_pipelines returns the successful records (and
\* y_test) only; the failed records, each with its identity and error text,
\* stay in the local all_results and are not returned
C6_Amended ==
    pc \in Completed =>
        /\ ReturnValue[2] = y_test
        /\ \A m \in 1..Len(ReturnValue[1]) : ReturnValue[1][m].status = "success"
        /\ \A n \in 1..Len(all_results) :
              /\ all_results[n].status = "success" => all_results[n] \in Range(ReturnValue[1])
              /\ IsFailed(all_results[n]) =>
                    /\ all_results[n] \notin Range(ReturnValue[1])
                    /\ IdentityKeys \cup {"error"} \subseteq DOMAIN all_results[n]

C6_Witness ==
    pc = "done" /\ Len(failures) >= 2 /\ Len(successful) >= 1

\* the records built so far: the appended ones and the one being returned
RecordsBuilt == Range(all_results) \cup (IF pc = "return" THEN {results} ELSE {})

\* C8: a record tagged failed holds the identity, the status and the error
\* text and no metric or timing field, whatever stages had completed; a
\* record tagged success holds every metric and timing field and no error
C8_AllOrNothing ==
    \A r \in RecordsBuilt :
        /\ r.status \in {"success", "failed"}
        /\ IsFailed(r) => DOMAIN r = IdentityKeys \cup {"status", "error"}
        /\ r.status = "success" => DOMAIN r = IdentityKeys \cup {"status"} \cup MetricKeys
        /\ r.pipeline = Identity(r)

C8_Witness ==
    /\ pc = "return"
    /\ IsFailed(results)
    /\ {"extract_time", "reduce_time", "train_time", "y_pred"} \subseteq DOMAIN frame
    /\ \E r \in Range(all_results) : r.status = "success"

\* an empty train or test split
CorpusError == Len(train_df) = 0 \/ Len(test_df) = 0

\* C9 as stated: with an empty split no combination is executed and nothing
\* is recorded as a per-combination failure
C9_Original ==
    CorpusError => (Started = 0 /\ all_results = << >>)

\* C9, amended: an empty train or test split is not detected before the
\* loop; every combination is still executed, fails inside train_pipeline
\* and is recorded as a failed record, so no record is successful; texts and
\* labels of a split are columns of one data frame and have equal length
C9_Amended ==
    /\ pc # "load" => (Len(X_train) = Len(y_train) /\ Len(X_test) = Len(y_test))
    /\ CorpusError =>
          /\ \A r \in RecordsBuilt : IsFailed(r)
          /\ pc \in Completed => (Len(all_results) = Total /\ ReturnValue[1] = << >>)

C9_Witness ==
    /\ pc = "done"
    /\ Len(train_df) > 0 /\ Len(test_df) = 0
    /\ Total >= 2 /\ Len(failures) = Total

\* position of record r in the sequence rs
IndexOf(rs, r) == CHOOSE n \in 1..Len(rs) : rs[n] = r

IsPermutation(ranked, rs) ==
    /\ Len(ranked) = Len(rs)
    /\ \A n \in 1..Len(rs) : Cardinality({m \in 1..Len(ranked) : ranked[m] = rs[n]}) = 1

\* equal keys keep the order they have in rs
KeepsTieOrder(ranked, rs, field) ==
    /\ IsPermutation(ranked, rs)
    /\ \A m1, m2 \in 1..Len(ranked) :
          (m1 < m2 /\ FracEq(ranked[m1][field], ranked[m2][field])) =>
              IndexOf(rs, ranked[m1]) < IndexOf(rs, ranked[m2])

\* C10: ranking is a stable sort in both directions: results with equal
\* metric value keep their execution order
C10_RankStable ==
    /\ viz.stage = "shown" => KeepsTieOrder(viz.ranked, successful, "accuracy")
    /\ pc \in Completed =>
          /\ KeepsTieOrder(SummaryOrder(successful), successful, "accuracy")
          /\ KeepsTieOrder(sorted(successful, TrainTimeKeys(successful), FALSE),
                           successful, "train_time")
          /\ KeepsTieOrder(sorted(successful, AccuracyKeys(successful), FALSE),
                           successful, "accuracy")

C10_Witness ==
    /\ viz.stage = "shown"
    /\ \E m1, m2, m3 \in 1..Len(successful) :
          /\ m1 < m2 /\ m2 < m3
          /\ FracLess(successful[m1].accuracy, successful[m2].accuracy)
          /\ FracEq(successful[m2].accuracy, successful[m3].accuracy)
          /\ successful[m2].train_time = successful[m3].train_time

\* the ranking by a metric, ascending
Ascending(rs, field) == sorted(rs, [n \in 1..Len(rs) |-> rs[n][field]], FALSE)

\* C11: ranking is idempotent: ranking an already ranked list by the same
\* metric and direction gives the same list, element for element
C11_RankIdempotent ==
    /\ viz.stage = "shown" => RankByAccuracy(viz.ranked) = viz.ranked
    /\ pc \in Completed =>
          /\ RankByAccuracy(RankByAccuracy(successful)) = RankByAccuracy(successful)
          /\ SummaryOrder(SummaryOrder(successful)) = SummaryOrder(successful)
          /\ Ascending(Ascending(successful, "train_time"), "train_time")
                = Ascending(successful, "train_time")
          /\ Ascending(Ascending(successful, "accuracy"), "accuracy")
                = Ascending(successful, "accuracy")

C11_Witness ==
    /\ viz.stage = "shown"
    /\ viz.ranked # successful
    /\ \E m1, m2 \in 1..Len(viz.ranked) :
          /\ m1 < m2
          /\ viz.ranked[m1] # viz.ranked[m2]
          /\ FracEq(viz.ranked[m1].accuracy, viz.ranked[m2].accuracy)

\* no record outside the first n of ranked beats one inside
PrefixHoldsHighest(ranked, n) ==
    \A m1 \in 1..Len(ranked), m2 \in 1..Len(ranked) :
        (m1 <= n /\ m2 > n) => FracLeq(ranked[m2].accuracy, ranked[m1].accuracy)

\* C12: the ranking by accuracy, descending, is a permutation of its input
\* in which no result is followed by one of higher accuracy, so that the
\* top 3 are 3 results of highest accuracy
C12_RankCorrect ==
    viz.stage = "shown" =>
        /\ IsPermutation(viz.ranked, successful)
        /\ \A n \in 1..(Len(viz.ranked) - 1) :
              FracLeq(viz.ranked[n + 1].accuracy, viz.ranked[n].accuracy)
        /\ Len(successful) >= TopN => Len(viz.top3) = TopN
        /\ Len(viz.top3) <= TopN
        /\ viz.top3 = SubSeq(viz.ranked, 1, Len(viz.top3))
        /\ PrefixHoldsHighest(viz.ranked, Len(viz.top3))

C12_Witness ==
    /\ viz.stage = "shown"
    /\ Len(successful) > TopN
    /\ FracLess(successful[1].accuracy, successful[Len(successful)].accuracy)
    /\ FracLess(viz.ranked[Len(viz.ranked)].accuracy, viz.top3[TopN].accuracy)

\* r has the least training time of rs
IsFastest(r, rs) ==
    /\ \E n \in 1..Len(rs) : rs[n] = r
    /\ \A n \in 1..Len(rs) : FracLeq(r.train_time, rs[n].train_time)

\* C13: ranking by training time, ascending, puts a result of least
\* training time first, for every non-empty result set; it is the result
\* min(results, key=train_time) reports as the fastest
C13_FastestFirst ==
    /\ viz.stage = "shown" => IsFastest(viz.fastest, successful)
    /\ (pc \in Completed /\ successful # << >>) =>
          IsFastest(Ascending(successful, "train_time")[1], successful)

\* the result set of the example: 2.0 s, 0.5 s and 1.0 s, in this order
C13_Witness ==
    /\ viz.stage = "shown"
    /\ Len(successful) = 3
    /\ successful[1].train_time = Frac(2, 1)
    /\ successful[2].train_time = Frac(1, 2)
    /\ successful[3].train_time = Frac(1, 1)
    /\ viz.fastest = successful[2]

\* what the extractor returned for the train and the test split
ExtractorOutput(docs) == DocTermMatrix(docs, FeatureCount(ext))

\* the matrix the classifier of the running combination is handed for X
HandedToClassifier(X) ==
    IF results.classifier = "Naive Bayes" THEN abs(toarray(X)) ELSE X

\* C14: with the 'none' reducer the reduction stage is skipped: its time is
\* exactly 0, no reducer is fitted or applied, and the classifier is handed
\* the extractor's output, unchanged but for the dense non-negative
\* conversion Naive Bayes gets
C14_NoneReducerSkipped ==
    (pc \in StagePcs \cup {"return"} /\ results.reducer = "None"
        /\ "reduce_time" \in DOMAIN frame) =>
        /\ frame.reduce_time = Frac(0, 1)
        /\ red = NoneObj
        /\ frame.features_after = frame.features_before
        /\ pc = "fit" =>
              /\ frame.X_train_vec = ExtractorOutput(X_train)
              /\ frame.X_test_vec = ExtractorOutput(X_test)
        /\ pc \in {"predict", "metrics", "return"} =>
              /\ frame.X_train_vec = HandedToClassifier(ExtractorOutput(X_train))
              /\ frame.X_test_vec = HandedToClassifier(ExtractorOutput(X_test))
        /\ (pc = "return" /\ IsSuccess(results)) =>
              /\ results.features_after = results.features_before
              /\ FracEq(results.train_time, FracAdd(frame.extract_time, frame.train_time))

C14_Witness ==
    /\ pc = "return" /\ IsSuccess(results)
    /\ results.reducer = "None"
    /\ results.classifier = "Naive Bayes"
    /\ frame.reduce_time = Frac(0, 1)
    /\ \E n \in 1..Len(all_results) : IsSuccess(all_results[n]) /\ all_results[n].reducer # "None"

\* the successful records built so far
SuccessRecords ==
    {all_results[n] : n \in {m \in 1..Len(all_results) : IsSuccess(all_results[m])}}
    \cup (IF pc = "return" /\ IsSuccess(results) THEN {results} ELSE {})

\* 0 <= x <= 1
InUnitInterval(x) == x[2] > 0 /\ 0 <= x[1] /\ x[1] <= x[2]

\* C15: accuracy, precision, recall and F1 of every successful record lie
\* between 0 and 1
C15_MetricsInUnitInterval ==
    \A r \in SuccessRecords :
        /\ InUnitInterval(r.accuracy)
        /\ InUnitInterval(r.precision)
        /\ InUnitInterval(r.recall)
        /\ InUnitInterval(r.f1_score)

C15_Witness ==
    \E r \in SuccessRecords :
        /\ r \in Range(successful)
        /\ FracLess(Frac(0, 1), r.accuracy) /\ FracLess(r.accuracy, Frac(1, 1))
        /\ FracLess(r.recall, r.precision) /\ FracLess(r.precision, Frac(1, 1))
        /\ FracLess(Frac(0, 1), r.f1_score) /\ FracLess(r.f1_score, Frac(1, 1))

\* C16: the timing fields of every successful record, train_time and
\* inference_ms, are >= 0 whatever the wall clock read at the stage
\* boundaries
C16_TimingsNonNegative ==
    \A r \in SuccessRecords :
        /\ FracLeq(Frac(0, 1), r.train_time)
        /\ FracLeq(Frac(0, 1), r.inference_ms)

\* the fields of a record that hold a score, a size or a tag, not a time
ScoreKeys == {"accuracy", "precision", "recall", "f1_score", "features_before",
              "features_after", "confusion_matrix", "status"}
\* the fields of record r that hold an elapsed time
TimeKeys(r) == DOMAIN r \ (IdentityKeys \cup ScoreKeys)
Stages == {"extraction", "reduction", "training", "inference"}

\* C18 as stated: a successful record carries the identity, one elapsed-time
\* field for each of the four stages, and all metric fields
C18_Original ==
    \A r \in SuccessRecords :
        /\ IdentityKeys \subseteq DOMAIN r
        /\ ScoreKeys \subseteq DOMAIN r
        /\ Cardinality(TimeKeys(r)) = Cardinality(Stages)

\* C18: a successful record carries the identity, all metric fields and two
\* time fields: train_time, the sum of the extraction, reduction and fit
\* times, and inference_ms, the prediction time per test row in milliseconds
C18_Amended ==
    /\ \A r \in SuccessRecords :
          /\ IdentityKeys \subseteq DOMAIN r
          /\ ScoreKeys \subseteq DOMAIN r
          /\ TimeKeys(r) = {"train_time", "inference_ms"}
    /\ (pc = "return" /\ IsSuccess(results)) =>
          /\ FracEq(results.train_time,
                    FracAdd(frame.extract_time, FracAdd(frame.reduce_time, frame.train_time)))
          /\ FracEq(results.inference_ms, frame.infer_time)

C18_Witness ==
    /\ pc = "return" /\ IsSuccess(results)
    /\ FracLess(frame.extract_time, frame.reduce_time)
    /\ FracLess(frame.reduce_time, frame.train_time)
    /\ ~FracEq(results.train_time, frame.train_time)

\* the stages of one combination in the order of the claim, then its outcome
StageOrder == << "extract", "reduce", "fit", "predict", "metrics", "return" >>
StageIndex(p) == CHOOSE n \in 1..Len(StageOrder) : StageOrder[n] = p

\* one step of the run keeps the order of the stages and of the combinations
SequentialStep ==
    /\ (pc \in Range(StageOrder) /\ pc' # pc) =>
          \/ pc # "return" /\ pc' = StageOrder[StageIndex(pc) + 1]
          \/ pc # "return" /\ pc' = "return" /\ IsFailed(results')
          \/ pc = "return" /\ pc' = "loop"
    /\ pc' = "reduce" => ext'.fitted /\ "extract_time" \in DOMAIN frame'
    /\ pc' = "fit" =>
          /\ "reduce_time" \in DOMAIN frame'
          /\ red' # NoneObj => red'.fitted
    /\ pc' = "predict" => clf'.fitted /\ "train_time" \in DOMAIN frame'
    /\ pc' = "metrics" => "y_pred" \in DOMAIN frame' /\ "infer_time" \in DOMAIN frame'
    /\ (pc' = "return" /\ IsSuccess(results')) => "accuracy" \in DOMAIN frame'
    /\ (pc' = "extract" /\ pc # "extract") =>
          /\ pc = "loop"
          /\ ~ext'.fitted /\ ~clf'.fitted
          /\ Identity(results') = NthIdentity(Len(all_results) + 1)
          /\ \A n \in 1..Len(all_results) :
                /\ Identity(all_results[n]) = NthIdentity(n)
                /\ IsSuccess(all_results[n]) \/ IsFailed(all_results[n])
    /\ all_results' # all_results =>
          /\ pc = "return" /\ pc' = "loop"
          /\ all_results' = Append(all_results, results)

\* C20: execution is strictly sequential: within a combination the stages
\* run in the order extraction, reduction, fit, prediction, metrics, each
\* on what the one before has finished, and a combination starts only when
\* the outcomes of all combinations before it are recorded
C20_Sequential == [][SequentialStep]_vars

C20_Witness ==
    /\ pc = "metrics"
    /\ red # NoneObj /\ red.fitted
    /\ Len(all_results) >= 2
    /\ IsFailed(all_results[1]) /\ IsSuccess(all_results[2])

\* C17: the harness is deterministic: a second execution on the same
\* corpus and tables, with stage objects that behave as in the first, gives
\* the same outcomes in the same order: same combinations, same status,
\* same metric values, in all_results and in what is returned
C17_Deterministic ==
    (first_run # NoRun /\ pc = "done") =>
        /\ Outcomes(all_results) = first_run.all_results
        /\ Outcomes(successful) = first_run.successful

\* two executions with a failure and a success, differing in a timing
C17_Witness ==
    /\ first_run # NoRun /\ pc = "done"
    /\ Len(all_results) = 2
    /\ IsFailed(all_results[1]) /\ IsSuccess(all_results[2])
    /\ FracLess(Frac(0, 1), all_results[2].train_time)
    /\ FracLess(Frac(0, 1), all_results[2].accuracy)

\* the (model, pooling) pairs of the grid, in iteration order
BertPairs ==
    [n \in 1..(Len(BERT_MODELS) * Len(POOLING_STRATEGIES)) |->
        << BERT_MODELS[((n - 1) \div Len(POOLING_STRATEGIES)) + 1],
           POOLING_STRATEGIES[((n - 1) % Len(POOLING_STRATEGIES)) + 1] >>]
\* pooler_output on a model without a pooler
NoPoolerPair(pair) == pair[2] = "pooler_output" /\ ~pair[1].has_pooler
IsTrained(pair) == ~NoPoolerPair(pair)
\* the pairs main has passed
PairsPassed == (model_key - 1) * Len(POOLING_STRATEGIES) + (pooling_key - 1)
ResultsOf(key) ==
    Cardinality({n \in 1..Len(bert_results) : bert_results[n].model_base = key})

\* C19: the BERT run passes every (model, pooling) pair in order, skips
\* exactly the pooler_output pairs of models without a pooler, and, every
\* trained pair succeeding, ends with 8 results: 3 for BERT-base, 2 for
\* DistilBERT, 3 for TinyBERT
C19_BertGrid ==
    /\ bert_pc \in {"loop", "summary"} =>
          LET trained == SelectSeq(SubSeq(BertPairs, 1, PairsPassed), IsTrained)
          IN /\ Len(bert_results) = Len(trained)
             /\ \A n \in 1..Len(trained) :
                   /\ bert_results[n].model_base = trained[n][1].key
                   /\ bert_results[n].pooling_strategy = trained[n][2]
    /\ bert_pc = "summary" =>
          /\ PairsPassed = Len(BertPairs)
          /\ Len(bert_results) = TrainedConfigurations
          /\ ResultsOf("bert_base") = 3
          /\ ResultsOf("distilbert") = 2
          /\ ResultsOf("tinybert") = 3

C19_Witness ==
    /\ bert_pc = "summary"
    /\ Len(bert_results) = TrainedConfigurations
    /\ \E n \in 1..Len(bert_results) :
          /\ bert_results[n].model_base = "distilbert"
          /\ FracLess(bert_results[n].accuracy, bert_results[1].accuracy)

\* the calls the running combination has made on its stage objects
CallsMade == IF "calls" \in DOMAIN frame THEN Range(frame.calls) ELSE {}
FitMethods == {"fit", "fit_transform"}

\* C21: fitting uses the train split only: every fit and fit_transform call
\* of the extractor, the reducer and the classifier gets train texts or
\* features of the train texts, and the train labels where it gets labels;
\* the test split reaches transform and predict only
C21_FitOnTrainOnly ==
    \A c \in CallsMade :
        /\ c.method \in FitMethods =>
              /\ c.X.of = X_train
              /\ c.y \in {NoLabels, Labels(y_train)}
              /\ c.object = "classifier" => c.y = Labels(y_train)
        /\ c.X.of # X_train =>
              /\ c.X.of = X_test
              /\ c.method \in {"transform", "predict"}
              /\ c.y = NoLabels

\* a combination with a reducer has fitted all three objects and predicted
C21_Witness ==
    /\ pc = "metrics"
    /\ X_test # << >>
    /\ Len(frame.calls) = 6
    /\ red # NoneObj /\ red.fitted
    /\ \E c \in CallsMade : c.method = "predict" /\ c.X.of = X_test

\* the calls made on the reducer of the running combination
ReducerCalls == {c \in CallsMade : c.object = "reducer"}
Dense(X) == ~X.sparse
NonNegative(X) == X.nonneg
\* X is the extractor's output for docs, converted or not
ConvertedOutput(docs) == abs(toarray(DocTermMatrix(docs, FeatureCount(ext))))
PlainOutput(docs) == DocTermMatrix(docs, FeatureCount(ext))

\* C22: the reducer gets the dense non-negative conversion of the train and
\* of the test matrix, and the train labels, if and only if it is the Chi2
\* selector; every other reducer gets the extractor's output as it is, and
\* no labels
C22_ChiSquareConversion ==
    \A c \in ReducerCalls :
        LET docs == IF c.method = "fit_transform" THEN X_train ELSE X_test
        IN IF results.reducer = "Chi2"
           THEN /\ c.X = ConvertedOutput(docs)
                /\ Dense(c.X) /\ NonNegative(c.X)
                /\ c.method = "fit_transform" => c.y = Labels(y_train)
           ELSE /\ c.X = PlainOutput(docs)
                /\ ~Dense(c.X)
                /\ c.y = NoLabels

\* both reducers have run in one execution
C22_Witness ==
    /\ pc = "fit"
    /\ results.reducer = "Chi2"
    /\ Cardinality(ReducerCalls) = 2
    /\ \E n \in 1..Len(all_results) :
          IsSuccess(all_results[n]) /\ all_results[n].reducer = "PCA"

\* the calls made on the classifier of the running combination
ClassifierCalls == {c \in CallsMade : c.object = "classifier"}

\* what the reduction stage left for docs: the extractor's output, or the
\* reducer's output for it
AfterReduction(docs) ==
    IF red = NoneObj THEN PlainOutput(docs)
    ELSE ReducerOutput(red, IF results.reducer = "Chi2" THEN ConvertedOutput(docs)
                            ELSE PlainOutput(docs))

\* C23: Naive Bayes is fitted on and predicts from dense, element-wise
\* non-negative features whatever the reducer; every other classifier gets
\* the features as the reduction stage left them
C23_NaiveBayesInput ==
    \A c \in ClassifierCalls :
        LET docs == IF c.method = "fit" THEN X_train ELSE X_test
        IN /\ c.X.of = docs
           /\ IF results.classifier = "Naive Bayes"
              THEN /\ Dense(c.X) /\ NonNegative(c.X)
                   /\ c.X.cols = AfterReduction(docs).cols
              ELSE c.X = AfterReduction(docs)

\* Naive Bayes after a projection that leaves negative entries
C23_Witness ==
    /\ pc = "metrics"
    /\ results.classifier = "Naive Bayes"
    /\ results.reducer = "PCA"
    /\ ~NonNegative(AfterReduction(X_train))
    /\ Cardinality(ClassifierCalls) = 2
    /\ \E n \in 1..Len(all_results) :
          IsSuccess(all_results[n]) /\ all_results[n].reducer = "None"
             /\ all_results[n].classifier = "Naive Bayes"

\* the combinations whose preparation or execution raised an exception
RaisedIn == {n \in 1..Len(all_results) : IsFailed(all_results[n])}

C25_CorpusUnchanged ==
    [][pc # "load" => /\ X_train' = X_train /\ y_train' = y_train
                      /\ X_test' = X_test /\ y_test' = y_test
                      /\ train_df' = train_df /\ test_df' = test_df]_vars

\* a run is over in which a combination with a dense conversion succeeded
\* and another failed, and the columns are still those of the data frames
C25_Witness ==
    /\ pc \in Completed
    /\ \E n \in 1..Len(all_results) :
          /\ IsSuccess(all_results[n])
          /\ \/ IsChiSquare(all_results[n].reducer)
             \/ IsNaiveBayes(all_results[n].classifier)
    /\ \E n \in 1..Len(all_results) : IsFailed(all_results[n])
    /\ X_test # << >>
    /\ X_train = Column(train_df, "text") /\ y_train = Column(train_df, "category")
    /\ X_test = Column(test_df, "text") /\ y_test = Column(test_df, "category")

\* C26: the best, fastest, ranking and top-N queries of the charts leave
\* the result set as it was: the successful list and the list of all
\* recorded outcomes hold the same records with the same field values in
\* the same execution order after the queries as before them
C26_QueriesReadOnly ==
    [][pc = "done" => successful' = successful /\ all_results' = all_results]_vars

\* the queries were answered on more results than the top-N table shows,
\* the ranking is in another order than the execution order, and the
\* successful list is still the selection from the recorded outcomes
C26_Witness ==
    /\ pc = "finished"
    /\ Len(successful) > TopN
    /\ viz.ranked # successful
    /\ viz.best_acc # successful[1]
    /\ viz.fastest # successful[1]
    /\ successful = SelectSeq(all_results, IsSuccess)

\* an estimator that no fit or fit_transform call has touched
Unfitted(obj) == obj = NoneObj \/ ~obj.fitted

\* C27: the stage objects of the three tables are never fitted, and every
\* combination starts from unfitted copies of the objects of its own rows,
\* an empty frame and a record holding its names only, whatever the
\* combinations before it did: nothing a combination reads was written by
\* an earlier one
C27_NoSharedFittedState ==
    /\ \A n \in DOMAIN extractors : Unfitted(extractors[n].obj)
    /\ \A n \in DOMAIN reducers : Unfitted(reducers[n].obj)
    /\ \A n \in DOMAIN classifiers : Unfitted(classifiers[n].obj)
    /\ pc = "extract" =>
          /\ Unfitted(ext) /\ Unfitted(red) /\ Unfitted(clf)
          /\ ext = extractors[ei].obj
          /\ red = reducers[ri].obj
          /\ clf = classifiers[ci].obj
          /\ frame = [stage |-> "extract", calls |-> << >>]
          /\ DOMAIN results = IdentityKeys
          /\ Identity(results) = NthIdentity(Len(all_results) + 1)

\* a combination starts on the extractor and classifier rows of the one
\* before it, which fitted its objects, after one success and one failure
C27_Witness ==
    /\ pc = "extract"
    /\ Len(all_results) >= 2
    /\ LET last == all_results[Len(all_results)]
       IN /\ last.extractor = results.extractor
          /\ last.classifier = results.classifier
          /\ IsSuccess(last)
    /\ \E n \in 1..Len(all_results) : IsFailed(all_results[n])

\* the position in execution order of the earliest result whose field is
\* not exceeded (sign = 1) or not undercut (sign = -1) by any other
EarliestExtreme(rs, field, sign) ==
    CHOOSE n \in 1..Len(rs) :
        /\ \A m \in 1..Len(rs) :
              IF sign = 1 THEN FracLeq(rs[m][field], rs[n][field])
                          ELSE FracLeq(rs[n][field], rs[m][field])
        /\ \A m \in 1..(n - 1) : rs[m][field] # rs[n][field]

\* C28: the result max picks by accuracy is the first of the ranking by
\* descending accuracy, the result min picks by training time is the first
\* of the ranking by ascending training time, and among tied results both
\* are the one executed earliest
C28_ExtremaHeadRankings ==
    viz.stage = "shown" =>
        /\ viz.best_acc = sorted(successful, NegAccuracyKeys(successful), FALSE)[1]
        /\ viz.best_acc = viz.ranked[1]
        /\ viz.best_acc = successful[EarliestExtreme(successful, "accuracy", 1)]
        /\ viz.fastest = sorted(successful, TrainTimeKeys(successful), FALSE)[1]
        /\ viz.fastest = successful[EarliestExtreme(successful, "train_time", 0 - 1)]

\* two results tie on the highest accuracy and two on the least training
\* time, and neither tie starts with the first result executed
C28_Witness ==
    /\ viz.stage = "shown"
    /\ \E n \in 2..Len(successful), m \in 2..Len(successful) :
          /\ n < m
          /\ successful[n] = viz.best_acc
          /\ successful[m].accuracy = viz.best_acc.accuracy
    /\ \E n \in 2..Len(successful), m \in 2..Len(successful) :
          /\ n < m
          /\ successful[n] = viz.fastest
          /\ successful[m].train_time = viz.fastest.train_time

\* the positions of all_results whose outcome is a success
SuccessPositions == {n \in 1..Len(all_results) : all_results[n].status = "success"}

\* the position of the k-th success in execution order
KthSuccess(k) ==
    CHOOSE n \in SuccessPositions :
        Cardinality({m \in SuccessPositions : m <= n}) = k

\* C29: what compare_pipelines returns is the subsequence of the recorded
\* outcomes with status 'success', in execution order: it holds no failed
\* outcome, leaves no success out, and is no longer than the number of
\* combinations executed
C29_SuccessfulIsSubsequence ==
    /\ pc \in Completed =>
          /\ \A k \in 1..Len(successful) : successful[k].status = "success"
          /\ Len(successful) = Cardinality(SuccessPositions)
          /\ \A k \in 1..Len(successful) : successful[k] = all_results[KthSuccess(k)]
          /\ Len(successful) <= Len(all_results)
          /\ Len(all_results) = Total
    /\ pc \notin Completed => successful = << >>

\* a failure stands between two successes of the run, and a success of
\* accuracy zero is kept
C29_Witness ==
    /\ pc \in Completed
    /\ \E a \in 1..Len(all_results), b \in 1..Len(all_results), c \in 1..Len(all_results) :
          /\ a < b /\ b < c
          /\ all_results[a].status = "success"
          /\ all_results[b].status = "failed"
          /\ all_results[c].status = "success"
          /\ all_results[c].accuracy = Frac(0, 1)
    /\ Len(successful) = 2
    /\ Len(successful) < Len(all_results)

\* no display name stands twice in a table
DistinctNames(table) ==
    \A m \in 1..Len(table), n \in 1..Len(table) : m # n => table[m].name # table[n].name

\* the recorded outcomes, or the successful results, carrying an identity
Carrying(rs, id) == {n \in 1..Len(rs) : Identity(rs[n]) = id}

\* C30: with distinct display names in each table no two recorded outcomes
\* carry the same (extractor, reducer, classifier) identity; the lookup of
\* a heatmap cell then matches at most one result, the cell shows that
\* result's accuracy, and its value is None exactly when the combination
\* of the cell failed
C30_HeatmapCells ==
    (DistinctNames(extractors) /\ DistinctNames(reducers) /\ DistinctNames(classifiers)) =>
        /\ \A n \in 1..Len(all_results) :
              Carrying(all_results, Identity(all_results[n])) = {n}
        /\ viz.stage = "shown" =>
              \A cell \in DOMAIN viz.heatmap :
                  /\ Cardinality(Carrying(successful, cell)) <= 1
                  /\ viz.heatmap[cell].z = NoValue <=>
                        \E n \in Carrying(all_results, cell) : IsFailed(all_results[n])
                  /\ \A n \in Carrying(successful, cell) :
                        viz.heatmap[cell].z = FracMul(successful[n].accuracy, Frac(100, 1))

\* the heatmap of a run has a cell of a failed combination, whose reducer
\* and classifier succeeded in other combinations, and a cell with a value
C30_Witness ==
    /\ viz.stage = "shown"
    /\ \E cell \in DOMAIN viz.heatmap :
          /\ viz.heatmap[cell].z = NoValue
          /\ \E n \in Carrying(all_results, cell) : IsFailed(all_results[n])
    /\ \E cell \in DOMAIN viz.heatmap :
          /\ viz.heatmap[cell].z # NoValue
          /\ viz.heatmap[cell].text # NoText
    /\ Len(all_results) > 2
====
